---- MODULE Spec2Model ----
(***************************************************************************)
(* Parametric panel assemblies: create_panel (elements.py) and the         *)
(* compositions create_plinth, create_niche and                            *)
(* create_wardrobe_composition (compositions.py), driving a document       *)
(* (the sink) through addObject / setattr / setExpression / Placement.     *)
(*                                                                         *)
(* Numbers.  A length is an integer count of ticks, Ticks ticks to the     *)
(* unit, so that (back_ratio * inner_height) / 2 is exact for a            *)
(* back_ratio given in thousandths.  A coefficient of a symbolic           *)
(* expression is scaled the same way (coefficient 1 is Ticks).             *)
(***************************************************************************)
EXTENDS Integers, Sequences, FiniteSets, TLC

VARIABLES doc, last, calls, seen

vars == <<doc, last, calls, seen>>

(***************************************************************************)
(* Bounds of the model.                                                    *)
(***************************************************************************)
MaxDim == 4
MaxThick == 2
MaxPos == 1
MaxOff == 1
MaxCalls == 2
MaxPlinthHeight == 3
MaxOps == 82

(***************************************************************************)
(* Representation of numbers.                                              *)
(***************************************************************************)
RatioDen == 1000
Ticks == 2 * RatioDen

\* back_ratio > 0.001  and  back_ratio >= .999, in thousandths
BACK_NONE == 1
BACK_FULL == 999

\* create_varset(doc, Width=800.0, Depth=300.0, Thickness=15.0, ...)
WIDTH == 800
DEPTH == 300
THICKNESS == 15
PLINTH_HEIGHT == 150
NICHE_HEIGHT == 500
PLINTH_OFFSET == 20

\* The test block of elements.py: W = 100.0, H = 200.0, T = 15.0
TEST_W == 100
TEST_H == 200
TEST_T == 15

VARSET_NAME == "params"

\* The properties of a VarSet: those create_wardrobe_composition declares,
\* in its order, then Height of the test block of elements.py.
ParamOrder ==
    << "Width", "Depth", "Thickness", "Plinth_Height", "Niche_Height",
       "Plinth_Offset_Front", "Plinth_Offset_Back",
       "Plinth_Offset_Left", "Plinth_Offset_Right", "Height" >>

ParamNames == { ParamOrder[i] : i \in 1..Len(ParamOrder) }

Qualified(name) == VARSET_NAME \o "." \o name

ZeroK == [p \in ParamNames |-> 0]

(***************************************************************************)
(* Values: a Python number ("num"), a Python str ("str") or a sympy        *)
(* expression ("sym").  A sympy expression is kept in sympy's canonical    *)
(* form: a constant c and a coefficient k[p] for each symbol params.p.     *)
(* A str is the sequence of its terms.                                     *)
(***************************************************************************)
Num(n) == [kind |-> "num", c |-> n * Ticks, k |-> ZeroK, text |-> << >>]

Term(coef, name) == [coef |-> coef, name |-> name]

StrValue(text) == [kind |-> "str", c |-> 0, k |-> ZeroK, text |-> text]

\* var(name): sympy.Symbol(f"{VARSET_NAME}.{name}")
var(name) ==
    [kind |-> "sym", c |-> 0, k |-> [ZeroK EXCEPT ![name] = Ticks], text |-> << >>]

\* isinstance(value, (str, sympy.Basic))
IsFormula(v) == v.kind \in {"str", "sym"}

\* Python's and sympy's + - and * by an int: the result is a number only
\* when both operands are numbers.
ArithKind(a, b) == IF a.kind = "num" /\ b.kind = "num" THEN "num" ELSE "sym"

Plus(a, b) ==
    [kind |-> ArithKind(a, b), c |-> a.c + b.c,
     k |-> [p \in ParamNames |-> a.k[p] + b.k[p]], text |-> << >>]

Minus(a, b) ==
    [kind |-> ArithKind(a, b), c |-> a.c - b.c,
     k |-> [p \in ParamNames |-> a.k[p] - b.k[p]], text |-> << >>]

Times(n, a) ==
    [kind |-> a.kind, c |-> n * a.c,
     k |-> [p \in ParamNames |-> n * a.k[p]], text |-> << >>]

\* (back_ratio * inner_height) / 2, back_ratio in thousandths
RatioHalf(ratio, a) ==
    [kind |-> a.kind, c |-> (ratio * a.c) \div (2 * RatioDen),
     k |-> [p \in ParamNames |-> (ratio * a.k[p]) \div (2 * RatioDen)],
     text |-> << >>]

(***************************************************************************)
(* str(value): a str is itself; a number prints as one constant term; a    *)
(* sympy expression prints its non-zero terms in symbol order, then its    *)
(* constant, and prints 0 when nothing is left.                            *)
(***************************************************************************)
RECURSIVE SymTerms(_, _)
SymTerms(a, i) ==
    IF i > Len(ParamOrder) THEN << >>
    ELSE (IF a.k[ParamOrder[i]] # 0
             THEN << Term(a.k[ParamOrder[i]], Qualified(ParamOrder[i])) >>
             ELSE << >>) \o SymTerms(a, i + 1)

ConstTerm(c) == Term(c, "1")

ToStr(v) ==
    CASE v.kind = "str" -> v.text
      [] v.kind = "num" -> << ConstTerm(v.c) >>
      [] OTHER ->
           LET ts == SymTerms(v, 1)
           IN  IF v.c # 0 THEN ts \o << ConstTerm(v.c) >>
               ELSE IF ts = << >> THEN << ConstTerm(0) >> ELSE ts

(***************************************************************************)
(* The document (the sink).  An object keeps the properties set by         *)
(* setattr (lit), the expressions bound by setExpression (expr) and its    *)
(* Placement.  A run of one composition is the record                      *)
(*   doc      the document,                                                *)
(*   ops      the sink operations issued so far, each with its outcome,    *)
(*   emitted  the panel descriptors handed to create_panel so far,         *)
(*   n        the number of sink operations issued,                        *)
(*   err      the exception that is propagating ("" when none),            *)
(*   F        the sink operations, by ordinal, that the sink rejects.      *)
(***************************************************************************)
NoFunc == [x \in {} |-> 0]

NewObject(type, name) ==
    [type |-> type, name |-> name, lit |-> NoFunc, expr |-> NoFunc,
     base |-> << >>, rot |-> ""]

Start(d, F) ==
    [doc |-> d, ops |-> << >>, emitted |-> << >>, n |-> 0, err |-> "", F |-> F]

SetLast(d, obj) == [d EXCEPT ![Len(d)] = obj]

\* One operation of the sink: nothing is issued while an exception
\* propagates; a rejected operation raises and leaves the document as it was.
SinkCall(st, kind, path, newdoc) ==
    IF st.err # "" THEN st
    ELSE LET ok == (st.n + 1) \notin st.F
         IN  [st EXCEPT !.n = st.n + 1,
                        !.ops = Append(st.ops, [op |-> kind, path |-> path, ok |-> ok]),
                        !.doc = IF ok THEN newdoc ELSE st.doc,
                        !.err = IF ok THEN "" ELSE "SinkError"]

\* doc.addObject(type, name)
addObject(st, type, name) ==
    SinkCall(st, "addObject", name, Append(st.doc, NewObject(type, name)))

\* obj.setExpression(prop_name, text)
setExpression(st, path, text) ==
    SinkCall(st, "setExpression", path,
             LET o == st.doc[Len(st.doc)]
             IN  SetLast(st.doc, [o EXCEPT !.expr = (path :> text) @@ o.expr]))

\* setattr(obj, prop_name, value)
setattr(st, prop, n) ==
    SinkCall(st, "setattr", prop,
             LET o == st.doc[Len(st.doc)]
             IN  SetLast(st.doc, [o EXCEPT !.lit = (prop :> n) @@ o.lit]))

\* obj.Placement = FreeCAD.Placement(base_vector, rotation)
setPlacement(st, base, rot) ==
    SinkCall(st, "Placement", "Placement",
             LET o == st.doc[Len(st.doc)]
             IN  SetLast(st.doc, [o EXCEPT !.base = base, !.rot = rot]))

\* The except clause of _set_prop_or_expr: the exception of the setattr is
\* caught and the value is bound as an expression instead.
Fallback(s1, prop_name, value) ==
    setExpression([s1 EXCEPT !.err = ""], prop_name, ToStr(value))

\* _set_prop_or_expr(obj, prop_name, value)
_set_prop_or_expr(st, prop_name, value) ==
    IF st.err # "" THEN st
    ELSE IF IsFormula(value) THEN setExpression(st, prop_name, ToStr(value))
    ELSE LET s1 == setattr(st, prop_name, value.c)
         IN  IF s1.err # "" THEN Fallback(s1, prop_name, value) ELSE s1

\* (mutant) only a str is taken for a formula
resolveStrOnly(val) ==
    IF val.kind = "str" THEN [val |-> 0, expr |-> ToStr(val), none |-> FALSE]
    ELSE [val |-> val.c, expr |-> << >>, none |-> TRUE]

\* resolve(val) of create_panel: (0.0, str(val)) or (float(val), None)
resolve(val) ==
    IF IsFormula(val) THEN [val |-> 0, expr |-> ToStr(val), none |-> FALSE]
    ELSE [val |-> val.c, expr |-> << >>, none |-> TRUE]

\* "if x_expr:" -- None and the empty string are both false
Truthy(r) == ~r.none /\ r.expr # << >>

\* The members of the enum Orientation
Orientation == {"FRONT", "SIDE", "TOP"}

\* (mutant) the rotations of SIDE and TOP exchanged
RotationOfExchanged(orientation) ==
    CASE orientation = "FRONT" -> "Identity"
      [] orientation = "SIDE" -> "RotXNeg90"
      [] orientation = "TOP" -> "RotZ90"
      [] OTHER -> "Identity"

\* The if / elif chain on the orientation; rotation starts as the identity.
RotationOf(orientation) ==
    CASE orientation = "FRONT" -> "Identity"
      [] orientation = "SIDE" -> "RotZ90"
      [] orientation = "TOP" -> "RotXNeg90"
      [] OTHER -> "Identity"

Descriptor(name, width, height, thickness, orientation, position) ==
    [name |-> name, width |-> width, height |-> height, thickness |-> thickness,
     orientation |-> orientation, position |-> position]

\* (mutant) the name made unique against the objects of the document
EmitUnique(st, d) ==
    [st EXCEPT !.emitted =
       Append(st.emitted,
              IF \E i \in 1..Len(st.doc) : st.doc[i].name = d.name
              THEN [d EXCEPT !.name = d.name \o "001"] ELSE d)]

\* The descriptor a call of create_panel is made with
Emit(st, d) == [st EXCEPT !.emitted = Append(st.emitted, d)]

ApplyExpr(st, r, path) ==
    IF Truthy(r) THEN setExpression(st, path, r.expr) ELSE st

\* create_panel(doc, width, height, thickness, orientation, position, name),
\* its keyword arguments in the order the compositions write them
create_panel(st, name, width, height, thickness, orientation, position) ==
    IF st.err # "" THEN st
    ELSE
    LET s0 == Emit(st, Descriptor(name, width, height, thickness, orientation, position))
        s1 == addObject(s0, "Part::Box", name)
        s2 == _set_prop_or_expr(s1, "Length", width)
        s3 == _set_prop_or_expr(s2, "Width", thickness)
        s4 == _set_prop_or_expr(s3, "Height", height)
        rx == resolve(position[1])
        ry == resolve(position[2])
        rz == resolve(position[3])
        s5 == setPlacement(s4, << rx.val, ry.val, rz.val >>, RotationOf(orientation))
        s6 == ApplyExpr(s5, rx, "Placement.Base.x")
        s7 == ApplyExpr(s6, ry, "Placement.Base.y")
    IN  ApplyExpr(s7, rz, "Placement.Base.z")

\* create_varset(doc, **kwargs): kwargs as a sequence of <<key, value>>
RECURSIVE AddProperties(_, _, _)
AddProperties(st, kwargs, i) ==
    IF i > Len(kwargs) THEN st
    ELSE LET s1 == SinkCall(st, "addProperty", kwargs[i][1], st.doc)
         IN  AddProperties(setattr(s1, kwargs[i][1], kwargs[i][2]), kwargs, i + 1)

create_varset(st, kwargs) ==
    AddProperties(addObject(st, "App::VarSet", VARSET_NAME), kwargs, 1)

(***************************************************************************)
(* The compositions.                                                       *)
(***************************************************************************)
\* (mutant) the thickness of one dominant panel only
InnerDepthOneSide(eff_depth, thickness) == Minus(eff_depth, thickness)

\* inner_depth = eff_depth - 2 * thickness
InnerDepth(eff_depth, thickness) == Minus(eff_depth, Times(2, thickness))

\* (mutant) the thickness of one dominant panel only
InnerHeightOneSide(height, thickness) == Minus(height, thickness)

\* inner_height = height - 2 * thickness
InnerHeight(height, thickness) == Minus(height, Times(2, thickness))

\* (mutant) the division by 2 forgotten
StripHeightWhole(back_ratio, inner_height) == RatioHalf(2 * back_ratio, inner_height)

\* strip_height = (back_ratio * inner_height) / 2
StripHeight(back_ratio, inner_height) == RatioHalf(back_ratio, inner_height)

\* create_plinth(doc, height, width, depth, thickness, position,
\*               offset_front, offset_back, offset_left, offset_right, name)
create_plinth(st, height, width, depth, thickness, position, off, name) ==
    LET eff_width == Minus(Minus(width, off.left), off.right)
        eff_depth == Minus(Minus(depth, off.front), off.back)
        inner_depth == InnerDepth(eff_depth, thickness)
        start_x == Plus(position[1], off.left)
        start_y == Plus(position[2], off.front)
        z_pos == position[3]
        p1 == create_panel(st, name \o "_front", eff_width, height, thickness, "FRONT",
                           << start_x, start_y, z_pos >>)
        p2 == create_panel(p1, name \o "_back", eff_width, height, thickness, "FRONT",
                           << start_x, Minus(Plus(start_y, eff_depth), thickness), z_pos >>)
        p3 == create_panel(p2, name \o "_left", inner_depth, height, thickness, "SIDE",
                           << Plus(start_x, thickness), Plus(start_y, thickness), z_pos >>)
    IN  create_panel(p3, name \o "_right", inner_depth, height, thickness, "SIDE",
                     << Plus(start_x, eff_width), Plus(start_y, thickness), z_pos >>)

\* The two strips of a partial back: back_top, then back_bottom.
SplitBack(st, height, width, thickness, inner_height, back_x, back_y, z_pos, name, back_ratio) ==
    LET strip_height == StripHeight(back_ratio, inner_height)
        b1 == create_panel(st, name \o "_back_top",
                           Minus(width, Times(2, thickness)), strip_height, thickness, "FRONT",
                           << back_x, back_y,
                              Minus(Minus(Plus(z_pos, height), thickness), strip_height) >>)
    IN  create_panel(b1, name \o "_back_bottom",
                     Minus(width, Times(2, thickness)), strip_height, thickness, "FRONT",
                     << back_x, back_y, Plus(z_pos, thickness) >>)

\* (mutant) the lower cutoff taken as >= and the upper as >
BackBranchShifted(back_ratio) ==
    IF back_ratio >= BACK_NONE
    THEN (IF back_ratio > BACK_FULL THEN "full" ELSE "split")
    ELSE "none"

\* "if back_ratio > 0.001: if back_ratio >= .999: ... else: ..."
BackBranch(back_ratio) ==
    IF back_ratio > BACK_NONE
    THEN (IF back_ratio >= BACK_FULL THEN "full" ELSE "split")
    ELSE "none"

\* create_niche(doc, height, width, depth, thickness, position, name, back_ratio)
create_niche(st, height, width, depth, thickness, position, name, back_ratio) ==
    LET inner_height == InnerHeight(height, thickness)
        x_pos == position[1]
        y_pos == position[2]
        z_pos == position[3]
        p1 == create_panel(st, name \o "_left", depth, inner_height, thickness, "SIDE",
                           << Plus(x_pos, thickness), y_pos, Plus(z_pos, thickness) >>)
        p2 == create_panel(p1, name \o "_right", depth, inner_height, thickness, "SIDE",
                           << Plus(x_pos, width), y_pos, Plus(z_pos, thickness) >>)
        p3 == create_panel(p2, name \o "_base", width, depth, thickness, "TOP",
                           << x_pos, y_pos, Plus(z_pos, thickness) >>)
        p4 == create_panel(p3, name \o "_top", width, depth, thickness, "TOP",
                           << x_pos, y_pos, Plus(z_pos, height) >>)
        back_x == Plus(x_pos, thickness)
        back_y == Minus(Plus(y_pos, depth), thickness)
        branch == BackBranch(back_ratio)
    IN  CASE branch = "none" -> p4
          [] branch = "full" ->
               create_panel(p4, name \o "_back", Minus(width, Times(2, thickness)),
                            inner_height, thickness, "FRONT",
                            << back_x, back_y, Plus(z_pos, thickness) >>)
          [] OTHER ->
               SplitBack(p4, height, width, thickness, inner_height,
                         back_x, back_y, z_pos, name, back_ratio)

NoOffsets == [front |-> Num(0), back |-> Num(0), left |-> Num(0), right |-> Num(0)]

\* The keyword arguments of the create_varset call of the wardrobe
WardrobeParams ==
    << << "Width", WIDTH * Ticks >>, << "Depth", DEPTH * Ticks >>,
       << "Thickness", THICKNESS * Ticks >>,
       << "Plinth_Height", PLINTH_HEIGHT * Ticks >>,
       << "Niche_Height", NICHE_HEIGHT * Ticks >>,
       << "Plinth_Offset_Front", PLINTH_OFFSET * Ticks >>,
       << "Plinth_Offset_Back", PLINTH_OFFSET * Ticks >>,
       << "Plinth_Offset_Left", PLINTH_OFFSET * Ticks >>,
       << "Plinth_Offset_Right", PLINTH_OFFSET * Ticks >> >>

\* (mutant) the niche left on the floor
WardrobeNicheOnFloor(H_P) == << Num(0), Num(0), Num(0) >>

\* position=(0, 0, H_P) of the niche of the wardrobe
WardrobeNichePosition(H_P) == << Num(0), Num(0), H_P >>

\* create_wardrobe_composition(doc)
create_wardrobe_composition(st) ==
    LET s1 == create_varset(st, WardrobeParams)
        W == var("Width")
        D == var("Depth")
        T == var("Thickness")
        H_P == var("Plinth_Height")
        H_N == var("Niche_Height")
        offs == [front |-> var("Plinth_Offset_Front"), back |-> var("Plinth_Offset_Back"),
                 left |-> var("Plinth_Offset_Left"), right |-> var("Plinth_Offset_Right")]
        s2 == create_plinth(s1, H_P, W, D, T, << Num(0), Num(0), Num(0) >>, offs, "plinth")
    IN  create_niche(s2, H_N, W, D, T, WardrobeNichePosition(H_P), "niche", RatioDen)

(***************************************************************************)
(* The solid of a Part::Box: the box [0,Length] x [0,Width] x [0,Height],  *)
(* rotated, then moved to Placement.Base.  A bound expression overrides    *)
(* the property it is bound to; it is evaluated over the VarSet vs.        *)
(***************************************************************************)
ParamOf(qname) == CHOOSE p \in ParamNames : Qualified(p) = qname

RECURSIVE EvalText(_, _, _)
EvalText(text, vs, i) ==
    IF i > Len(text) THEN 0
    ELSE (IF text[i].name = "1" THEN text[i].coef
          ELSE text[i].coef * (vs[ParamOf(text[i].name)] \div Ticks))
         + EvalText(text, vs, i + 1)

Field(obj, path, literal, vs) ==
    IF path \in DOMAIN obj.expr THEN EvalText(obj.expr[path], vs, 1) ELSE literal

Prop(obj, path, vs) ==
    Field(obj, path, IF path \in DOMAIN obj.lit THEN obj.lit[path] ELSE 0, vs)

BoxDims(obj, vs) ==
    << Prop(obj, "Length", vs), Prop(obj, "Width", vs), Prop(obj, "Height", vs) >>

BoxBase(obj, vs) ==
    << Field(obj, "Placement.Base.x", obj.base[1], vs),
       Field(obj, "Placement.Base.y", obj.base[2], vs),
       Field(obj, "Placement.Base.z", obj.base[3], vs) >>

\* FreeCAD.Rotation(): identity; Rotation(Vector(0,0,1), 90): (a,b,c) to
\* (-b,a,c); Rotation(Vector(1,0,0), -90): (a,b,c) to (a,c,-b).
RotationMatrix(rot) ==
    CASE rot = "RotZ90" -> << << 0, -1, 0 >>, << 1, 0, 0 >>, << 0, 0, 1 >> >>
      [] rot = "RotXNeg90" -> << << 1, 0, 0 >>, << 0, 0, 1 >>, << 0, -1, 0 >> >>
      [] OTHER -> << << 1, 0, 0 >>, << 0, 1, 0 >>, << 0, 0, 1 >> >>

Neg(n) == IF n < 0 THEN n ELSE 0
Pos(n) == IF n > 0 THEN n ELSE 0

\* The extent of the placed box along axis a (1 = X, 2 = Y, 3 = Z)
Extent(obj, vs, a) ==
    LET d == BoxDims(obj, vs)
        b == BoxBase(obj, vs)
        R == RotationMatrix(obj.rot)[a]
    IN  [lo |-> b[a] + Neg(R[1]) * d[1] + Neg(R[2]) * d[2] + Neg(R[3]) * d[3],
         hi |-> b[a] + Pos(R[1]) * d[1] + Pos(R[2]) * d[2] + Pos(R[3]) * d[3]]

Min(a, b) == IF a < b THEN a ELSE b
Max(a, b) == IF a > b THEN a ELSE b

\* Two extents share more than a face
ExtentsOverlap(e, f) == Min(e.hi, f.hi) > Max(e.lo, f.lo)

\* Two placed boxes share a volume that is not zero
Overlap(o1, o2, vs) ==
    \A a \in 1..3 : ExtentsOverlap(Extent(o1, vs, a), Extent(o2, vs, a))

(***************************************************************************)
(* State.  doc is the document; last is the most recent call with what it  *)
(* did; seen is the call before it; calls counts the compositions made in  *)
(* the document.                                                           *)
(***************************************************************************)
Call(fn, name, args, ratio, tag) ==
    [fn |-> fn, name |-> name, args |-> args, ratio |-> ratio, tag |-> tag]

NoCall == Call("none", "", << >>, 0, "")

Outcome(call, pre, st) ==
    [call |-> call, pre |-> pre, err |-> st.err, emitted |-> st.emitted,
     ops |-> st.ops]

Init ==
    /\ doc = << >>
    /\ last = Outcome(NoCall, << >>, Start(<< >>, {}))
    /\ seen = Outcome(NoCall, << >>, Start(<< >>, {}))
    /\ calls = 0

Record(call, st) ==
    /\ doc' = st.doc
    /\ seen' = last
    /\ last' = Outcome(call, doc, st)
    /\ calls' = calls + 1

\* A document in which no composition has run yet
Fresh == doc = << >> /\ calls = 0

\* FreeCAD.newDocument(doc_name) of the drivers
NewDocument ==
    /\ ~Fresh
    /\ doc' = << >>
    /\ last' = Outcome(NoCall, << >>, Start(<< >>, {}))
    /\ seen' = last'
    /\ calls' = 0

Triple(p) == << Num(p[1]), Num(p[2]), Num(p[3]) >>

Offsets(f, b, l, r) == [front |-> f, back |-> b, left |-> l, right |-> r]

PlinthCall(h, w, d, t, pos, off, F) ==
    Record(Call("create_plinth", "plinth",
                << h, w, d, t, pos[1], pos[2], pos[3],
                   off.front, off.back, off.left, off.right >>, 0, ""),
           create_plinth(Start(doc, F), h, w, d, t, pos, off, "plinth"))

NicheCall(h, w, d, t, pos, ratio, F) ==
    Record(Call("create_niche", "niche",
                << h, w, d, t, pos[1], pos[2], pos[3] >>, ratio, ""),
           create_niche(Start(doc, F), h, w, d, t, pos, "niche", ratio))

WardrobeCall(F) ==
    Record(Call("create_wardrobe_composition", "", << >>, RatioDen, ""),
           create_wardrobe_composition(Start(doc, F)))

(***************************************************************************)
(* Spec: the compositions on literal inputs in a fresh document, the       *)
(* wardrobe on its VarSet; the sink rejects nothing.                       *)
(***************************************************************************)
DimRange == 1..MaxDim
ThickRange == 1..MaxThick
Positions == { << 0, 0, 0 >>, << MaxPos, 2 * MaxPos, 3 * MaxPos >> }
OffRange == 0..MaxOff
Ratios ==
    { 0 - BACK_NONE, 0, BACK_NONE, BACK_NONE + 1, RatioDen \div 2,
      BACK_FULL - 1, BACK_FULL, RatioDen, RatioDen + RatioDen \div 2 }

Plinth ==
    /\ Fresh
    /\ \E h \in DimRange, w \in DimRange, d \in DimRange, t \in ThickRange,
          pos \in Positions, f \in OffRange, b \in OffRange,
          l \in OffRange, r \in OffRange :
          PlinthCall(Num(h), Num(w), Num(d), Num(t), Triple(pos),
                     Offsets(Num(f), Num(b), Num(l), Num(r)), {})

Niche ==
    /\ Fresh
    /\ \E h \in DimRange, w \in DimRange, d \in DimRange, t \in ThickRange,
          pos \in Positions, ratio \in Ratios :
          NicheCall(Num(h), Num(w), Num(d), Num(t), Triple(pos), ratio, {})

Wardrobe ==
    /\ Fresh
    /\ WardrobeCall({})

Next == NewDocument \/ Plinth \/ Niche \/ Wardrobe

Spec == Init /\ [][Next]_vars

(***************************************************************************)
(* Reading the outcome of the last call.                                   *)
(***************************************************************************)
\* The objects the last call added to the document
Created == SubSeq(doc, Len(last.pre) + 1, Len(doc))

Boxes == { i \in 1..Len(Created) : Created[i].type = "Part::Box" }

\* The contents of the VarSet of a document (no VarSet: nothing to read)
VarSetOf(d) ==
    IF \E i \in 1..Len(d) : d[i].type = "App::VarSet"
    THEN LET i == CHOOSE j \in 1..Len(d) : d[j].type = "App::VarSet"
         IN  [p \in ParamNames |-> IF p \in DOMAIN d[i].lit THEN d[i].lit[p] ELSE 0]
    ELSE ZeroK

VarSet == VarSetOf(doc)

Has(name) == \E i \in Boxes : Created[i].name = name

Panel(name) == Created[CHOOSE i \in Boxes : Created[i].name = name]

Names == [i \in 1..Len(last.emitted) |-> last.emitted[i].name]

\* The literal arguments of the last call, in ticks
ArgH == last.call.args[1].c
ArgW == last.call.args[2].c
ArgD == last.call.args[3].c
ArgT == last.call.args[4].c
ArgX == last.call.args[5].c
ArgY == last.call.args[6].c
ArgZ == last.call.args[7].c

IsNiche == last.call.fn = "create_niche" /\ last.err = ""
IsPlinth == last.call.fn = "create_plinth" /\ last.err = ""
IsWardrobe == last.call.fn = "create_wardrobe_composition" /\ last.err = ""

NominalPlinth ==
    IsPlinth /\ \A i \in 8..11 : last.call.args[i] = Num(0)

NoTwoOverlap ==
    \A i \in Boxes : \A j \in Boxes :
        i < j => ~Overlap(Created[i], Created[j], VarSet)

Fills(name, a, lo, hi) ==
    Extent(Panel(name), VarSet, a) = [lo |-> lo, hi |-> hi]

C2_SandwichFillsGap ==
    /\ IsNiche =>
         LET zlo == Extent(Panel("niche_base"), VarSet, 3).hi
             zhi == Extent(Panel("niche_top"), VarSet, 3).lo
         IN  /\ \A n \in {"niche_left", "niche_right"} :
                  /\ Prop(Panel(n), "Height", VarSet) = ArgH - 2 * ArgT
                  /\ Fills(n, 3, zlo, zhi)
             /\ last.call.ratio >= BACK_FULL =>
                  /\ Prop(Panel("niche_back"), "Length", VarSet) = ArgW - 2 * ArgT
                  /\ Fills("niche_back", 1,
                           Extent(Panel("niche_left"), VarSet, 1).hi,
                           Extent(Panel("niche_right"), VarSet, 1).lo)
    /\ IsPlinth =>
         LET ylo == Extent(Panel("plinth_front"), VarSet, 2).hi
             yhi == Extent(Panel("plinth_back"), VarSet, 2).lo
             ed == ArgD - last.call.args[8].c - last.call.args[9].c
         IN  \A n \in {"plinth_left", "plinth_right"} :
                  /\ Prop(Panel(n), "Length", VarSet) = ed - 2 * ArgT
                  /\ Fills(n, 2, ylo, yhi)

\* A plinth with offsets whose sides have a length
C2_Witness ==
    /\ IsPlinth
    /\ last.call.args[8].c > 0 /\ last.call.args[10].c > 0
    /\ ArgD - last.call.args[8].c - last.call.args[9].c > 2 * ArgT
    /\ Extent(Panel("plinth_left"), VarSet, 2).hi > Extent(Panel("plinth_left"), VarSet, 2).lo

(***************************************************************************)
(* C4.  create_niche routes on back_ratio by exact cutoffs: up to 0.001    *)
(* (included) 4 panels left, right, base, top; from 0.999 (included) 5     *)
(* panels, the fifth a FRONT panel <name>_back; strictly between, 6        *)
(* panels, the last two FRONT panels <name>_back_top, <name>_back_bottom.  *)
(***************************************************************************)
FourNames == << "niche_left", "niche_right", "niche_base", "niche_top" >>

FrontFrom(i) ==
    \A j \in i..Len(last.emitted) : last.emitted[j].orientation = "FRONT"

C5_BackStrips ==
    IsNiche =>
      LET ih == ArgH - 2 * ArgT
          r == last.call.ratio
      IN  /\ (r > 1 /\ r < 999) =>
               LET top == Panel("niche_back_top")
                   bot == Panel("niche_back_bottom")
                   sh == Prop(bot, "Height", VarSet)
                   ztop == Extent(top, VarSet, 3)
                   zbot == Extent(bot, VarSet, 3)
               IN  /\ 2 * RatioDen * sh = r * ih
                   /\ Prop(top, "Height", VarSet) = sh
                   /\ \A b \in {top, bot} :
                        /\ Prop(b, "Length", VarSet) = ArgW - 2 * ArgT
                        /\ b.base[2] = ArgY + ArgD - ArgT
                        /\ b.rot = "Identity"
                   /\ bot.base[3] = ArgZ + ArgT
                   /\ top.base[3] = ArgZ + ArgH - ArgT - sh
                   /\ zbot.lo = Extent(Panel("niche_base"), VarSet, 3).hi
                   /\ ztop.hi = Extent(Panel("niche_top"), VarSet, 3).lo
                   /\ RatioDen * (ztop.lo - zbot.hi) = ih * (RatioDen - r)
                   /\ zbot.hi - (ArgZ + ArgT) = (ArgZ + ArgH - ArgT) - ztop.lo
          /\ r >= 999 =>
               LET b == Panel("niche_back")
               IN  /\ Prop(b, "Height", VarSet) = ih
                   /\ b.base[2] = ArgY + ArgD - ArgT
                   /\ b.base[3] = ArgZ + ArgT

\* Two strips with a height, and a gap between them
C5_Witness ==
    /\ IsNiche /\ last.call.ratio = RatioDen \div 2
    /\ Has("niche_back_top")
    /\ Extent(Panel("niche_back_top"), VarSet, 3).lo
         > Extent(Panel("niche_back_bottom"), VarSet, 3).hi
    /\ Prop(Panel("niche_back_bottom"), "Height", VarSet) > 0

(***************************************************************************)
(* C6.  Wardrobe (one VarSet, create_plinth at z = 0, then create_niche at *)
(* z = plinth height): for every plinth height > 0 the base of the niche   *)
(* has its reference z at plinth height + thickness (165 for 150 and 15),  *)
(* no panel of the niche overlaps a panel of the plinth in Z, and no name  *)
(* is emitted by both.                                                     *)
(***************************************************************************)
PlinthHeights == (1..MaxPlinthHeight) \cup {PLINTH_HEIGHT}

\* create_plinth emits four panels, first; the rest is the niche's
PlinthPart == { i \in Boxes : Created[i].name \in { Names[j] : j \in 1..4 } }
NichePart == { i \in Boxes : Created[i].name \in { Names[j] : j \in 5..Len(Names) } }

C6_WardrobeStack ==
    IsWardrobe =>
      /\ \A hp \in PlinthHeights :
           LET vs == [VarSet EXCEPT !["Plinth_Height"] = hp * Ticks]
           IN  /\ BoxBase(Panel("niche_base"), vs)[3] = hp * Ticks + vs["Thickness"]
               /\ \A i \in NichePart : \A j \in PlinthPart :
                    /\ ~ExtentsOverlap(Extent(Created[i], vs, 3), Extent(Created[j], vs, 3))
                    /\ ~Overlap(Created[i], Created[j], vs)
      /\ BoxBase(Panel("niche_base"), VarSet)[3] = 165 * Ticks
      /\ \A i \in 1..4 : \A j \in 5..Len(Names) : Names[i] # Names[j]
      /\ PlinthPart \cap NichePart = {}

\* The wardrobe as the code builds it: four panels, then five
C6_Witness ==
    /\ IsWardrobe
    /\ Cardinality(PlinthPart) = 4 /\ Cardinality(NichePart) = 5
    /\ VarSet["Plinth_Height"] = PLINTH_HEIGHT * Ticks
    /\ Extent(Panel("plinth_front"), VarSet, 3).hi = Extent(Panel("niche_base"), VarSet, 3).lo

(***************************************************************************)
(* SpecPanel: create_panel alone, as the test block of elements.py calls   *)
(* it: a VarSet is declared first, then one panel is created, each of its  *)
(* six fields a number, a str or a sympy expression, with any orientation  *)
(* tag.                                                                    *)
(***************************************************************************)
DeclareVarset ==
    /\ doc = << >>
    /\ doc' = create_varset(Start(doc, {}),
                            << << "Width", TEST_W * Ticks >>, << "Height", TEST_H * Ticks >>,
                               << "Thickness", TEST_T * Ticks >> >>).doc
    /\ UNCHANGED << last, seen, calls >>

PanelDims ==
    { Num(n) : n \in 1..MaxThick }
      \cup { StrValue(<< Term(Ticks, Qualified("Width")) >>), var("Thickness") }

PanelCoords ==
    { Num(0), Num(MaxPos), StrValue(<< >>),
      StrValue(<< Term(Ticks, Qualified("Width")) >>),
      Minus(var("Height"), var("Thickness")) }

Tags == Orientation \cup {"DIAGONAL"}

PanelCall(w, h, t, o, pos, F) ==
    Record(Call("create_panel", "Panel", << w, h, t, pos[1], pos[2], pos[3] >>, 0, o),
           create_panel(Start(doc, F), "Panel", w, h, t, o, pos))

PanelAlone ==
    /\ Len(doc) = 1 /\ calls = 0
    /\ \E w \in PanelDims, h \in PanelDims, t \in PanelDims, o \in Tags,
          x \in PanelCoords, y \in PanelCoords, z \in PanelCoords :
          PanelCall(w, h, t, o, << x, y, z >>, {})

NextPanel == NewDocument \/ DeclareVarset \/ PanelAlone

SpecPanel == Init /\ [][NextPanel]_vars

\* The value a field was given, as the host evaluates it over the VarSet
EvalValue(v, vs) ==
    CASE v.kind = "num" -> v.c
      [] v.kind = "str" -> EvalText(v.text, vs, 1)
      [] OTHER ->
           LET F[i \in 0..Len(ParamOrder)] ==
                 IF i = 0 THEN v.c
                 ELSE F[i - 1] + v.k[ParamOrder[i]] * (vs[ParamOrder[i]] \div Ticks)
           IN  F[Len(ParamOrder)]

IsPanel == last.call.fn = "create_panel" /\ last.err = ""

PanelArg(i) == last.call.args[i]

\* The six fields of the panel: the path in the sink and the value given
PanelFields ==
    << << "Length", PanelArg(1) >>, << "Height", PanelArg(2) >>, << "Width", PanelArg(3) >>,
       << "Placement.Base.x", PanelArg(4) >>, << "Placement.Base.y", PanelArg(5) >>,
       << "Placement.Base.z", PanelArg(6) >> >>

(***************************************************************************)
(* C3.  create_panel(width, height, thickness, orientation, (x,y,z)) sets  *)
(* Length = width, Width = thickness, Height = height and the rotation of  *)
(* the orientation (FRONT identity, SIDE +90 about Z, TOP -90 about X), so *)
(* that the solid is  FRONT [x,x+width] x [y,y+thickness] x [z,z+height],  *)
(* SIDE [x-thickness,x] x [y,y+width] x [z,z+height],                      *)
(* TOP [x,x+width] x [y,y+height] x [z-thickness,z].                       *)
(***************************************************************************)
Interval(lo, hi) == [lo |-> lo, hi |-> hi]

C3_PlacementLaw ==
    (IsPanel /\ last.call.tag \in Orientation
       /\ \A i \in 4..6 : PanelArg(i) # StrValue(<< >>)) =>
      LET o == Created[1]
          vs == VarSet
          w == EvalValue(PanelArg(1), vs)
          h == EvalValue(PanelArg(2), vs)
          t == EvalValue(PanelArg(3), vs)
          x == EvalValue(PanelArg(4), vs)
          y == EvalValue(PanelArg(5), vs)
          z == EvalValue(PanelArg(6), vs)
          X == Extent(o, vs, 1)
          Y == Extent(o, vs, 2)
          Z == Extent(o, vs, 3)
      IN  /\ BoxDims(o, vs) = << w, t, h >>
          /\ last.call.tag = "FRONT" =>
               /\ o.rot = "Identity"
               /\ X = Interval(x, x + w) /\ Y = Interval(y, y + t) /\ Z = Interval(z, z + h)
          /\ last.call.tag = "SIDE" =>
               /\ o.rot = "RotZ90"
               /\ X = Interval(x - t, x) /\ Y = Interval(y, y + w) /\ Z = Interval(z, z + h)
          /\ last.call.tag = "TOP" =>
               /\ o.rot = "RotXNeg90"
               /\ X = Interval(x, x + w) /\ Y = Interval(y, y + h) /\ Z = Interval(z - t, z)

\* A SIDE panel at a literal x with a formula for its thickness
C3_Witness ==
    /\ IsPanel /\ last.call.tag = "SIDE"
    /\ PanelArg(4) = Num(MaxPos) /\ PanelArg(3) = var("Thickness")
    /\ Extent(Created[1], VarSet, 1) = Interval(MaxPos * Ticks - TEST_T * Ticks, MaxPos * Ticks)

(***************************************************************************)
(* C8.  create_panel called with an orientation tag that is not FRONT,     *)
(* SIDE or TOP fails with InvalidOrientation; it never completes normally. *)
(***************************************************************************)
C8_UnknownTagFails ==
    (last.call.fn = "create_panel" /\ last.call.tag \notin Orientation) =>
      /\ last.err = "InvalidOrientation"
      /\ Len(Created) = 0

(***************************************************************************)
(* C9.  create_panel classifies each of its six fields on its own: a       *)
(* number is set as a number and no formula is registered for it; a        *)
(* formula (str or sympy expression) gets exactly one registration         *)
(* carrying its string, and for a position component the number written    *)
(* in the Placement is the placeholder 0.0.  Any mix is accepted.          *)
(***************************************************************************)
Registrations(path) ==
    Cardinality({ i \in 1..Len(last.ops) :
                    last.ops[i].op = "setExpression" /\ last.ops[i].path = path })

IsDimension(path) == path \in {"Length", "Width", "Height"}

Component(path) ==
    CASE path = "Placement.Base.x" -> 1
      [] path = "Placement.Base.y" -> 2
      [] OTHER -> 3

SetAsNumber(o, path, v) ==
    /\ Registrations(path) = 0
    /\ path \notin DOMAIN o.expr
    /\ IF IsDimension(path)
       THEN path \in DOMAIN o.lit /\ o.lit[path] = v.c
       ELSE o.base[Component(path)] = v.c

RegisteredOnce(o, path, v) ==
    /\ Registrations(path) = 1
    /\ path \in DOMAIN o.expr
    /\ o.expr[path] = (IF v.kind = "str" THEN v.text ELSE ToStr(v))
    /\ IF IsDimension(path)
       THEN path \notin DOMAIN o.lit
       ELSE o.base[Component(path)] = 0

FailSets ==
    { {} } \cup { {i} : i \in 1..MaxOps } \cup { {i, i + 1} : i \in 1..MaxOps }

Big == Num(MaxDim)

PlinthFail ==
    /\ Fresh
    /\ \E t \in ThickRange, F \in FailSets :
         PlinthCall(Big, Big, Big, Num(t), Triple(<< 0, 0, 0 >>), NoOffsets, F)

NicheFail ==
    /\ Fresh
    /\ \E t \in ThickRange, ratio \in {0, RatioDen \div 2, RatioDen}, F \in FailSets :
         NicheCall(Big, Big, Big, Num(t), Triple(<< 0, 0, 0 >>), ratio, F)

WardrobeFail ==
    /\ Fresh
    /\ \E F \in FailSets : WardrobeCall(F)

NextFail == NewDocument \/ PlinthFail \/ NicheFail \/ WardrobeFail

SpecFail == Init /\ [][NextFail]_vars

(***************************************************************************)
(* C7.  When a sink operation fails during a composition (the creation of  *)
(* the box, or the setting of a dimension, formula or placement), the      *)
(* failure propagates to the caller: no further sink operation is issued,  *)
(* the failed step is not retried by other means, and what was created     *)
(* before the failure stays in the sink.                                   *)
(***************************************************************************)
Rejected == { i \in 1..Len(last.ops) : ~last.ops[i].ok }

Added == { i \in 1..Len(last.ops) : last.ops[i].op = "addObject" /\ last.ops[i].ok }

C7_SinkFailureAborts ==
    /\ \A i \in Rejected : i = Len(last.ops) /\ last.err = "SinkError"
    /\ Len(Created) = Cardinality(Added)
    /\ SubSeq(doc, 1, Len(last.pre)) = last.pre

(***************************************************************************)
(* SpecRepeat: the compositions called again and again, in the same        *)
(* document or in a new one, on literal or symbolic arguments.             *)
(***************************************************************************)
\* FreeCAD.newDocument between two runs of a driver
NewDocumentAgain ==
    /\ doc # << >>
    /\ doc' = << >>
    /\ UNCHANGED << last, seen, calls >>

Origin == Triple(<< 0, 0, 0 >>)

PlinthRepeat ==
    /\ calls < MaxCalls
    /\ \/ \E off \in { NoOffsets, Offsets(Num(1), Num(0), Num(0), Num(1)) } :
            PlinthCall(Num(2), Big, Big, Num(1), Origin, off, {})
       \/ PlinthCall(var("Plinth_Height"), var("Width"), var("Depth"), var("Thickness"),
                     Origin,
                     Offsets(var("Plinth_Offset_Front"), var("Plinth_Offset_Back"),
                             var("Plinth_Offset_Left"), var("Plinth_Offset_Right")), {})

NicheRepeat ==
    /\ calls < MaxCalls
    /\ \E ratio \in {0, RatioDen \div 2, RatioDen} :
         \/ NicheCall(Big, Big, Big, Num(1), Origin, ratio, {})
         \/ NicheCall(var("Niche_Height"), var("Width"), var("Depth"), var("Thickness"),
                      << Num(0), Num(0), var("Plinth_Height") >>, ratio, {})

NextRepeat == NewDocumentAgain \/ DeclareVarset \/ PlinthRepeat \/ NicheRepeat

SpecRepeat == Init /\ [][NextRepeat]_vars

(***************************************************************************)
(* C10.  Two calls of the same composition function with the same          *)
(* arguments and the same VarSet contents emit the same sequence of panel  *)
(* descriptors, field for field, whatever earlier calls left behind.       *)
(***************************************************************************)
SameCall ==
    /\ last.call.fn \in {"create_plinth", "create_niche"}
    /\ last.call = seen.call
    /\ last.err = "" /\ seen.err = ""
    /\ VarSetOf(last.pre) = VarSetOf(seen.pre)

====
